---------------------------- MODULE Spec2Model ----------------------------
(***************************************************************************)
(* Egyptian national-id verification: the text layer (normalize_digits,    *)
(* extract_national_id, extract_full_name), the orientation corrector and  *)
(* OCR wrapper (detect_rotation_and_correct_image, detect_text_from_image) *)
(* and the batch route of app.py (process_from_excel_links).               *)
(*                                                                         *)
(* A Python str is a sequence of Unicode code points (naturals).  An       *)
(* Optional[str] is a record [tag, val]: tag = "None" or tag = "str".      *)
(***************************************************************************)
EXTENDS Integers, Sequences, FiniteSets, TLC

VARIABLES
    text,       \* argument handed to a text function
    fn,         \* name of the text function that has returned, or "none"
    ret,        \* what that function returned
    excel,      \* the workbook at EXCEL_FILE_PATH: its status and its rows
    pc,         \* where process_from_excel_links stands
    index,      \* the row index of df.iterrows()
    results,    \* the list of result entries
    rendered,   \* what render_template got: "no" (not yet), "None" or "results"
    fs,         \* the files on disk: path |-> content
    loc,        \* the locals of the row being processed
    calls,      \* the calls made for the row being processed, in order
    files_to_process   \* process.py's sorted listing of IMAGE_FOLDER

textVars == <<text, fn, ret>>
pipeVars == <<excel, pc, index, results, rendered, fs, loc, calls, files_to_process>>
vars == <<text, fn, ret, excel, pc, index, results, rendered, fs, loc, calls,
          files_to_process>>

(***************************************************************************)
(* Python values                                                           *)
(***************************************************************************)
PyNone == [tag |-> "None", val |-> <<>>]
PyStr(s) == [tag |-> "str", val |-> s]

\* Python truthiness of an Optional[str]: None and "" are falsy.
Truthy(v) == v.tag = "str" /\ v.val # <<>>

(***************************************************************************)
(* Characters.  The ranges of Unicode category Nd the model carries are    *)
(* ASCII 0-9, Arabic-Indic U+0660.., Extended Arabic-Indic U+06F0.. and    *)
(* Devanagari U+0966..; Python 3's \d (str pattern, no re.ASCII) matches   *)
(* every one of them.                                                      *)
(***************************************************************************)
WesternDigits  == 48..57
EasternDigits  == 1632..1641
ExtendedDigits == 1776..1785
DevanagariDigits == 2406..2415

\* \d of Python's re on str patterns
IsDigit(c) == c \in WesternDigits \cup EasternDigits \cup ExtendedDigits \cup DevanagariDigits

\* \w of Python's re on str patterns: alphanumerics and the underscore
IsWord(c) ==
    \/ IsDigit(c)
    \/ c \in 65..90 \cup 97..122      \* Latin letters
    \/ c \in 1569..1610               \* Arabic letters U+0621..U+064A
    \/ c = 95                         \* underscore

\* \s of Python's re, and str.isspace
IsSpace(c) == c \in {9, 10, 11, 12, 13, 28, 29, 30, 31, 32, 133, 160}

\* str.isdigit: the decimal digits and the superscript digits
py_isdigit(c) == IsDigit(c) \/ c \in {178, 179, 185}

\* s[i], or -1 beyond either end of s
Ch(s, i) == IF i \in 1..Len(s) THEN s[i] ELSE -1

D(s, i) == IsDigit(Ch(s, i))

\* literals: a string of Western / Arabic-Indic / Devanagari digits from digit values
W(q)   == [i \in 1..Len(q) |-> 48 + q[i]]
Ar(q)  == [i \in 1..Len(q) |-> 1632 + q[i]]
Dev(q) == [i \in 1..Len(q) |-> 2406 + q[i]]

(***************************************************************************)
(* Idle values of the two groups of variables                              *)
(***************************************************************************)
NoLocals == [
    excel_row_id |-> <<>>, excel_nationality_id |-> <<>>, image_url |-> PyNone,
    local_filename |-> <<>>, local_filepath |-> <<>>,
    success |-> FALSE, message |-> <<>>,
    extracted_id |-> PyNone, is_match |-> FALSE,
    original_text |-> PyNone, corrected_path |-> <<>>,
    vertices |-> <<>>, pil_failed |-> FALSE,
    content |-> ""
]

PipeIdle ==
    /\ excel = [status |-> "ok", rows |-> <<>>]
    /\ pc = "idle" /\ index = 0 /\ results = <<>> /\ rendered = "no"
    /\ fs = <<>> /\ loc = NoLocals /\ calls = <<>>
    /\ files_to_process = <<>>

TextIdle == text = <<>> /\ fn = "none" /\ ret = PyNone

(***************************************************************************)
(* normalize_digits                                                        *)
(***************************************************************************)
\* a variant that sends the Extended Arabic-Indic digits to the Arabic-Indic ones
translate_to_eastern(c) ==
    IF c \in EasternDigits THEN c - 1632 + 48
    ELSE IF c \in ExtendedDigits THEN c - 1776 + 1632
    ELSE c

\* str.translate with numeral_map: one code point in, one out
translate(c) ==
    IF c \in EasternDigits THEN c - 1632 + 48
    ELSE IF c \in ExtendedDigits THEN c - 1776 + 48
    ELSE c

normalize_digits(s) ==
    IF s = <<>> THEN <<>> ELSE [i \in 1..Len(s) |-> translate(s[i])]

(***************************************************************************)
(* Regular expressions of extract_national_id                              *)
(***************************************************************************)
\* a variant that finds a boundary at every position
AnyPosition(s, i) == TRUE

\* \b before position i (1..Len(s)+1): exactly one side is a word character
WordBoundary(s, i) == IsWord(Ch(s, i - 1)) # IsWord(Ch(s, i))

\* (/\d{1,2})?\b from position q: the position after the match, or 0.
\* Greedy: the group with two digits, with one digit, then no group.
DateTail(s, q) ==
    IF Ch(s, q) = 47 /\ D(s, q + 1) /\ D(s, q + 2) /\ WordBoundary(s, q + 3) THEN q + 3
    ELSE IF Ch(s, q) = 47 /\ D(s, q + 1) /\ WordBoundary(s, q + 2) THEN q + 2
    ELSE IF WordBoundary(s, q) THEN q
    ELSE 0

\* \b\d{4}/\d{1,2}(/\d{1,2})?\b anchored at i: the position after the match, or 0
DateMatchEnd(s, i) ==
    IF ~(WordBoundary(s, i) /\ D(s, i) /\ D(s, i + 1) /\ D(s, i + 2) /\ D(s, i + 3)
         /\ Ch(s, i + 4) = 47)
    THEN 0
    ELSE IF D(s, i + 5) /\ D(s, i + 6) /\ DateTail(s, i + 7) # 0 THEN DateTail(s, i + 7)
    ELSE IF D(s, i + 5) THEN DateTail(s, i + 6)
    ELSE 0

\* re.sub(date pattern, '', s) from position i: matches are dropped, the rest kept
RECURSIVE SubDates(_, _)
SubDates(s, i) ==
    IF i > Len(s) THEN <<>>
    ELSE IF DateMatchEnd(s, i) # 0 THEN SubDates(s, DateMatchEnd(s, i))
    ELSE <<s[i]>> \o SubDates(s, i + 1)

strip_dates(s) == SubDates(s, 1)

\* [23]\d{13} anchored at i
Id14At(s, i) == Ch(s, i) \in {50, 51} /\ \A k \in 1..13 : D(s, i + k)

\* \b([23]\d{13})\b anchored at i
StrategyAAt(s, i) == WordBoundary(s, i) /\ Id14At(s, i) /\ WordBoundary(s, i + 14)

\* re.search(r'\b([23]\d{13})\b', s): group 1 of the leftmost match
StrategyA(s) ==
    IF \E i \in 1..Len(s) : StrategyAAt(s, i)
    THEN LET i == CHOOSE i \in 1..Len(s) :
                     StrategyAAt(s, i) /\ \A j \in 1..(i - 1) : ~StrategyAAt(s, j)
         IN PyStr(SubSeq(s, i, i + 13))
    ELSE PyNone

\* the position after the digit run that starts at i
RECURSIVE RunEnd(_, _)
RunEnd(s, i) == IF D(s, i) THEN RunEnd(s, i + 1) ELSE i

\* re.findall(r'\d+', s) from position i: the maximal digit runs, in order
RECURSIVE FindDigitRuns(_, _)
FindDigitRuns(s, i) ==
    IF i > Len(s) THEN <<>>
    ELSE IF D(s, i) THEN <<SubSeq(s, i, RunEnd(s, i) - 1)>> \o FindDigitRuns(s, RunEnd(s, i))
    ELSE FindDigitRuns(s, i + 1)

findall_digits(s) == FindDigitRuns(s, 1)

\* the loop of Strategy 2 accepts pair i of the runs
PairAt(runs, i) ==
    /\ Len(runs[i]) = 7 /\ Len(runs[i + 1]) = 7
    /\ (runs[i] \o runs[i + 1])[1] \in {50, 51}

StrategyB(s) ==
    LET runs == findall_digits(s)
    IN IF \E i \in 1..(Len(runs) - 1) : PairAt(runs, i)
       THEN LET i == CHOOSE i \in 1..(Len(runs) - 1) :
                        PairAt(runs, i) /\ \A j \in 1..(i - 1) : ~PairAt(runs, j)
            IN PyStr(runs[i] \o runs[i + 1])
       ELSE PyNone

\* re.search(r'([23]\d{13})', run): the leftmost embedded match, unanchored
Embedded(run) ==
    IF \E j \in 1..Len(run) : Id14At(run, j)
    THEN LET j == CHOOSE j \in 1..Len(run) :
                     Id14At(run, j) /\ \A k \in 1..(j - 1) : ~Id14At(run, k)
         IN PyStr(SubSeq(run, j, j + 13))
    ELSE PyNone

\* the loop of Strategy 3 accepts run i
\* a variant that takes only runs longer than 16
LongAt16(runs, i) == Len(runs[i]) > 16 /\ Embedded(runs[i]) # PyNone

LongAt(runs, i) == Len(runs[i]) > 14 /\ Embedded(runs[i]) # PyNone

StrategyC(s) ==
    LET runs == findall_digits(s)
    IN IF \E i \in 1..Len(runs) : LongAt(runs, i)
       THEN LET i == CHOOSE i \in 1..Len(runs) :
                        LongAt(runs, i) /\ \A j \in 1..(i - 1) : ~LongAt(runs, j)
            IN Embedded(runs[i])
       ELSE PyNone

\* a variant that tries the segmented strategy before the primary one
extract_segmented_first(s) ==
    IF s = <<>> THEN PyNone
    ELSE LET processed_text == normalize_digits(s)
             cleaned_text == strip_dates(processed_text)
         IN IF StrategyB(cleaned_text) # PyNone THEN StrategyB(cleaned_text)
            ELSE IF StrategyA(cleaned_text) # PyNone THEN StrategyA(cleaned_text)
            ELSE StrategyC(processed_text)

extract_national_id(s) ==
    IF s = <<>> THEN PyNone
    ELSE LET processed_text == normalize_digits(s)
             cleaned_text == strip_dates(processed_text)
         IN IF StrategyA(cleaned_text) # PyNone THEN StrategyA(cleaned_text)
            ELSE IF StrategyB(cleaned_text) # PyNone THEN StrategyB(cleaned_text)
            ELSE StrategyC(processed_text)

(***************************************************************************)
(* Texts handed to extract_national_id: up to MaxIdTokens tokens           *)
(***************************************************************************)
MaxIdTokens == 3

\* the id of the embedded-fallback example: 23456789012345
EmbeddedId == W(<<2,3,4,5,6,7,8,9,0,1,2,3,4,5>>)

RECURSIVE Concat(_)
Concat(ss) == IF ss = <<>> THEN <<>> ELSE Head(ss) \o Concat(Tail(ss))

\* all sequences of at most n elements of S
SeqsUpTo(S, n) == UNION {[1..k -> S] : k \in 0..n}

IdTokens == {
    W(<<2,9,9,0,1,0,1,1,2,3,4,5,6,7>>),            \* a clean id
    <<50>> \o Dev(<<9,9,0,1,0,1,1,2,3,4,5,6,7>>),  \* 2 and thirteen Devanagari digits
    W(<<2,9,9,0,1,0,1>>),                          \* the halves of a split id
    Ar(<<1,2,3,4,5,6,7>>),
    W(<<3,4,5,6,7,8,9>>) \o <<32>> \o W(<<0,1,2,3,4,5,6>>),   \* another id, split by a space
    W(<<2,0,1,9>>) \o <<47>> \o W(<<0,5>>) \o <<47>> \o W(<<1,2>>),   \* 2019/05/12
    <<32>> \o W(<<2,0,1,9>>) \o <<47>> \o W(<<5>>) \o <<32>>,      \* 2019/5 between blanks
    EmbeddedId,
    W(<<1>>), Ar(<<2>>), W(<<6>>),                 \* single digits
    <<32>>, <<97>>, <<47>>                         \* space, a, /
}

IdTexts == {Concat(ts) : ts \in SeqsUpTo(IdTokens, MaxIdTokens)}

InitId == text \in IdTexts /\ fn = "none" /\ ret = PyNone /\ PipeIdle

CallExtractNationalId ==
    /\ fn = "none"
    /\ fn' = "extract_national_id"
    /\ ret' = extract_national_id(text)
    /\ UNCHANGED text
    /\ UNCHANGED pipeVars

NextId == CallExtractNationalId

SpecId == InitId /\ [][NextId]_vars

(***************************************************************************)
(* Properties of extract_national_id (SpecId)                              *)
(***************************************************************************)
Returned == fn = "extract_national_id"

Min(S) == CHOOSE x \in S : \A y \in S : x <= y

\* positions of c where a standalone 14-digit id starts
CleanIdStarts(c) == {i \in 1..Len(c) : StrategyAAt(c, i)}

\* two consecutive digit runs of 7 digits each
SevenSeven(runs) == \E i \in 1..(Len(runs) - 1) : Len(runs[i]) = 7 /\ Len(runs[i + 1]) = 7

\* C1: whenever extract_national_id returns a value, it is 14 characters long,
\* every character is a Western digit 0-9, and the first is 2 or 3.
C1_IdIsFourteenWesternDigits ==
    (Returned /\ ret # PyNone) =>
        /\ Len(ret.val) = 14
        /\ \A i \in 1..Len(ret.val) : ret.val[i] \in WesternDigits
        /\ ret.val[1] \in {50, 51}

\* C5: when the date-stripped text holds a standalone 14-digit run starting with
\* 2 or 3, extract_national_id returns the first such run, whatever 7+7 pairs or
\* longer runs the text also holds.
C5_PrimaryStrategyWins ==
    Returned =>
        LET cleaned == strip_dates(normalize_digits(text))
            starts == CleanIdStarts(cleaned)
        IN starts # {} => ret = PyStr(SubSeq(cleaned, Min(starts), Min(starts) + 13))

\* C5 witness: a text with a 7+7 pair (whose concatenation is another id) and a
\* clean id; the clean id was returned.
C5_Witness ==
    Returned /\
        LET cleaned == strip_dates(normalize_digits(text))
        IN /\ CleanIdStarts(cleaned) # {}
           /\ SevenSeven(findall_digits(cleaned))
           /\ StrategyB(cleaned) # PyNone /\ StrategyB(cleaned) # ret

\* the runs of a list of digit runs that are longer than 14
LongRuns(runs) == {i \in 1..Len(runs) : Len(runs[i]) > 14}

\* the first character of the only run longer than 14
LongRunFirst(t) ==
    LET runs == findall_digits(normalize_digits(t))
    IN runs[CHOOSE i \in LongRuns(runs) : TRUE][1]

\* the text of the embedded-fallback example: one run of 16 digits holding
\* 23456789012345 as digits 2-15, no other run longer than 14, no run of
\* exactly 14 digits and no two consecutive runs of 7 digits.
EmbeddedCase(t) ==
    LET processed == normalize_digits(t)
        runs == findall_digits(processed)
        cleanedRuns == findall_digits(strip_dates(processed))
    IN /\ Cardinality(LongRuns(runs)) = 1
       /\ \A i \in LongRuns(runs) : Len(runs[i]) = 16 /\ SubSeq(runs[i], 2, 15) = EmbeddedId
       /\ \A i \in 1..Len(runs) : Len(runs[i]) # 14
       /\ \A i \in 1..Len(cleanedRuns) : Len(cleanedRuns[i]) # 14
       /\ ~SevenSeven(cleanedRuns)

\* C8 as stated: in the embedded case extract_national_id returns digits 2-15,
\* for every first and last digit of the run.
C8_ReturnsDigits2To15 == (Returned /\ EmbeddedCase(text)) => ret = PyStr(EmbeddedId)

\* C8 amended: in the embedded case extract_national_id returns digits 2-15
\* when the run's first digit is neither 2 nor 3, and digit 1 followed by
\* digits 2-14 when it is.
C8_ReturnsFirstEmbedded ==
    (Returned /\ EmbeddedCase(text)) =>
        ret = IF LongRunFirst(text) \in {50, 51}
              THEN PyStr(<<LongRunFirst(text)>> \o SubSeq(EmbeddedId, 1, 13))
              ELSE PyStr(EmbeddedId)

\* C8 witness: the embedded case with a first digit other than 2 or 3
C8_Witness ==
    /\ Returned /\ EmbeddedCase(text)
    /\ LongRunFirst(text) \notin {50, 51} /\ ret = PyStr(EmbeddedId)

(***************************************************************************)
(* normalize_digits applied to a text and again to its own output          *)
(* (SpecNorm)                                                              *)
(***************************************************************************)
MaxNormLen == 3

\* 0 5, Arabic-Indic 0 9, Extended 0 9, Devanagari 5, a, Arabic meem, newline, /, space
NormAlphabet == {48, 53, 1632, 1641, 1776, 1785, 2411, 97, 1605, 10, 47, 32}

InitNorm ==
    text \in SeqsUpTo(NormAlphabet, MaxNormLen) /\ fn = "none" /\ ret = PyNone /\ PipeIdle

CallNormalizeDigits ==
    /\ fn = "none"
    /\ fn' = "normalize_digits"
    /\ ret' = PyStr(normalize_digits(text))
    /\ UNCHANGED text
    /\ UNCHANGED pipeVars

CallNormalizeDigitsAgain ==
    /\ fn = "normalize_digits"
    /\ fn' = "normalize_digits twice"
    /\ ret' = PyStr(normalize_digits(ret.val))
    /\ UNCHANGED text
    /\ UNCHANGED pipeVars

NextNorm == CallNormalizeDigits \/ CallNormalizeDigitsAgain

SpecNorm == InitNorm /\ [][NextNorm]_vars

\* C10: normalize_digits keeps the length, replaces every Arabic-Indic and Extended
\* Arabic-Indic digit by the Western digit of the same value, leaves every other
\* character in place, maps "" to "", and applying it to its own output changes
\* nothing.
C10_NormalizeIdempotent ==
    /\ fn = "normalize_digits" =>
          /\ Len(ret.val) = Len(text)
          /\ \A i \in 1..Len(text) :
                ret.val[i] = IF text[i] \in EasternDigits THEN 48 + (text[i] - 1632)
                             ELSE IF text[i] \in ExtendedDigits THEN 48 + (text[i] - 1776)
                             ELSE text[i]
    /\ fn = "normalize_digits twice" => ret.val = normalize_digits(text)

\* C10 witness: a text with an Arabic-Indic digit, an Extended digit and another
\* character was normalized twice.
C10_Witness ==
    /\ fn = "normalize_digits twice"
    /\ \E i, j, k \in 1..Len(text) :
          text[i] \in EasternDigits /\ text[j] \in ExtendedDigits /\ ~IsDigit(text[k])
    /\ ret.val # text

(***************************************************************************)
(* extract_full_name (test2photos.py)                                      *)
(***************************************************************************)
\* the printed title that anchors the name
HeaderPhrase ==
    <<1576, 1591, 1575, 1602, 1577, 32, 1578, 1581, 1602, 1610, 1602, 32,
      1575, 1604, 1588, 1582, 1589, 1610, 1577>>

\* str.split(sep) from position i, cur being the piece read so far
RECURSIVE SplitFrom(_, _, _, _)
SplitFrom(s, sep, i, cur) ==
    IF i > Len(s) THEN <<cur>>
    ELSE IF s[i] = sep THEN <<cur>> \o SplitFrom(s, sep, i + 1, <<>>)
    ELSE SplitFrom(s, sep, i + 1, Append(cur, s[i]))

split_lines(s) == SplitFrom(s, 10, 1, <<>>)

\* needle in s
Contains(s, needle) ==
    \E i \in 1..(Len(s) - Len(needle) + 1) : SubSeq(s, i, i + Len(needle) - 1) = needle

\* str.strip(): leading and trailing whitespace removed
strip(s) ==
    IF \A i \in 1..Len(s) : IsSpace(s[i]) THEN <<>>
    ELSE LET a == CHOOSE i \in 1..Len(s) : ~IsSpace(s[i]) /\ \A j \in 1..(i - 1) : IsSpace(s[j])
             b == CHOOSE i \in 1..Len(s) : ~IsSpace(s[i]) /\ \A j \in (i + 1)..Len(s) : IsSpace(s[j])
         IN SubSeq(s, a, b)

\* len(s.split()): the number of maximal runs of non-whitespace
WordCount(s) ==
    Cardinality({i \in 1..Len(s) : ~IsSpace(s[i]) /\ (i = 1 \/ IsSpace(s[i - 1]))})

\* re.fullmatch(r'[\u0600-\u06FF\s]+', s)
ArabicOnly(s) == s # <<>> /\ \A i \in 1..Len(s) : s[i] \in 1536..1791 \/ IsSpace(s[i])

HasDigit(s) == \E i \in 1..Len(s) : py_isdigit(s[i])

\* a variant without the digit test
is_valid_name_no_digit_test(c) == WordCount(c) \in 2..4 /\ ArabicOnly(c)

is_valid_name(c) == WordCount(c) \in 2..4 /\ ArabicOnly(c) /\ ~HasDigit(c)

\* the 1-based indices of the lines that hold the header phrase
HeaderLines(lines) == {i \in 1..Len(lines) : Contains(lines[i], HeaderPhrase)}

extract_full_name(s) ==
    IF s = <<>> THEN PyNone
    ELSE LET lines == split_lines(s)
         IN IF HeaderLines(lines) = {} THEN PyNone
            ELSE LET h == Min(HeaderLines(lines))
                     ok(k) == h + k <= Len(lines) /\ is_valid_name(strip(lines[h + k]))
                 IN IF ok(1) THEN PyStr(strip(lines[h + 1]))
                    ELSE IF ok(2) THEN PyStr(strip(lines[h + 2]))
                    ELSE PyNone

(***************************************************************************)
(* Texts handed to extract_full_name: up to MaxNameLines lines (SpecName)  *)
(***************************************************************************)
MaxNameLines == 3

Mohamed == <<1605, 1581, 1605, 1583>>
Ali == <<1593, 1604, 1610>>

NameLines == {
    HeaderPhrase,
    <<97, 32>> \o HeaderPhrase \o <<32, 1634>>,      \* the phrase inside a longer line
    Mohamed \o <<32>> \o Ali,                        \* a name
    <<32>> \o Ali \o <<32, 32>> \o Mohamed \o <<32>>, \* a name with blanks around
    Mohamed \o <<32>> \o Ali \o <<32, 1635>>,        \* a name and an Arabic-Indic digit
    Mohamed \o <<32>> \o Ali \o <<32, 51>>,          \* a name and a Western digit
    Mohamed,                                         \* one word
    <<>>,                                            \* an empty line
    <<97, 98, 32, 99, 100>>                          \* Latin words
}

RECURSIVE JoinLines(_)
JoinLines(ls) ==
    IF ls = <<>> THEN <<>>
    ELSE IF Len(ls) = 1 THEN ls[1]
    ELSE ls[1] \o <<10>> \o JoinLines(Tail(ls))

NameTexts == {JoinLines(ls) : ls \in SeqsUpTo(NameLines, MaxNameLines)}

InitName == text \in NameTexts /\ fn = "none" /\ ret = PyNone /\ PipeIdle

CallExtractFullName ==
    /\ fn = "none"
    /\ fn' = "extract_full_name"
    /\ ret' = extract_full_name(text)
    /\ UNCHANGED text
    /\ UNCHANGED pipeVars

NextName == CallExtractFullName

SpecName == InitName /\ [][NextName]_vars

\* line k after the first header line of t, or <<>> when there is none
LineAfterHeader(t, k) ==
    LET lines == split_lines(t)
    IN IF HeaderLines(lines) # {} /\ Min(HeaderLines(lines)) + k <= Len(lines)
       THEN lines[Min(HeaderLines(lines)) + k]
       ELSE <<>>

HasHeader(t) == HeaderLines(split_lines(t)) # {}

\* C9 as stated: extract_full_name returns None when no line holds the header
\* phrase, and when the line right after the first header line holds a digit,
\* whatever lines come after it.
C9_DigitLineMeansNoName ==
    fn = "extract_full_name" =>
        /\ ~HasHeader(text) => ret = PyNone
        /\ (HasHeader(text) /\ HasDigit(LineAfterHeader(text, 1))) => ret = PyNone

\* C9 amended: extract_full_name returns None when no line holds the header
\* phrase; when the line right after the first header line holds a digit, that
\* line is not returned: the result is the second line after the header
\* (stripped) if that is a valid name, and None otherwise.
C9_DigitLineIsSkipped ==
    fn = "extract_full_name" =>
        /\ ~HasHeader(text) => ret = PyNone
        /\ (HasHeader(text) /\ HasDigit(LineAfterHeader(text, 1))) =>
              ret = IF is_valid_name(strip(LineAfterHeader(text, 2)))
                    THEN PyStr(strip(LineAfterHeader(text, 2)))
                    ELSE PyNone

\* C9 witness: the header, then a line that is a name but for an Arabic-Indic
\* digit, then a line that is no name: None was returned.
C9_Witness ==
    /\ fn = "extract_full_name" /\ HasHeader(text)
    /\ HasDigit(LineAfterHeader(text, 1))
    /\ is_valid_name_no_digit_test(strip(LineAfterHeader(text, 1)))
    /\ LineAfterHeader(text, 2) # <<>>
    /\ ret = PyNone

(***************************************************************************)
(* Files and paths                                                         *)
(***************************************************************************)
\* str(n) for a natural number
RECURSIVE IntToStr(_)
IntToStr(n) == IF n < 10 THEN <<48 + n>> ELSE IntToStr(n \div 10) \o <<48 + (n % 10)>>

\* str.replace(old, new) from position i: every occurrence, left to right
RECURSIVE ReplaceFrom(_, _, _, _)
ReplaceFrom(s, old, new, i) ==
    IF i > Len(s) THEN <<>>
    ELSE IF i + Len(old) - 1 <= Len(s) /\ SubSeq(s, i, i + Len(old) - 1) = old
         THEN new \o ReplaceFrom(s, old, new, i + Len(old))
         ELSE <<s[i]>> \o ReplaceFrom(s, old, new, i + 1)

Replace(s, old, new) == ReplaceFrom(s, old, new, 1)

DotJpg == <<46, 106, 112, 103>>                                  \* .jpg
DotPng == <<46, 112, 110, 103>>                                  \* .png
Corrected == <<95, 99, 111, 114, 114, 101, 99, 116, 101, 100>>   \* _corrected

\* image_path.replace('.jpg', '_corrected.jpg').replace('.png', '_corrected.png')
CorrectedPath(image_path) ==
    Replace(Replace(image_path, DotJpg, Corrected \o DotJpg), DotPng, Corrected \o DotPng)

\* DOWNLOAD_FOLDER = 'static/downloaded_images'
DOWNLOAD_FOLDER ==
    <<115, 116, 97, 116, 105, 99, 47, 100, 111, 119, 110, 108, 111, 97, 100, 101, 100,
      95, 105, 109, 97, 103, 101, 115>>

\* f"row_{index + 2}.jpg"
LocalFilename(i) == <<114, 111, 119, 95>> \o IntToStr(i + 2) \o DotJpg

\* os.path.join(DOWNLOAD_FOLDER, local_filename)
LocalFilepath(i) == DOWNLOAD_FOLDER \o <<47>> \o LocalFilename(i)

\* the file system after path is written with content / after path is removed
WriteFile(files, path, content) ==
    [p \in DOMAIN files \cup {path} |-> IF p = path THEN content ELSE files[p]]

RemoveFile(files, path) == [p \in DOMAIN files \ {path} |-> files[p]]

Exists(files, path) == path \in DOMAIN files

(***************************************************************************)
(* The spreadsheet                                                         *)
(***************************************************************************)
MaxRows == 2

IdA == W(<<2,9,9,0,1,0,1,1,2,3,4,5,6,7>>)

\* a cell that is no str (an empty cell reads as NaN)
NaN == [tag |-> "float", val |-> <<>>]

UrlOk == PyStr(<<104, 116, 116, 112, 58, 47, 47, 104, 47, 97, 46, 106, 112, 103>>)  \* http://h/a.jpg

RowSamples == {
    [id |-> 7, nationality_id |-> IdA, back_link |-> UrlOk],
    [id |-> 8, nationality_id |-> EmbeddedId, back_link |-> UrlOk],
    [id |-> 9, nationality_id |-> IdA, back_link |-> PyStr(<<78, 85, 76, 76>>)],   \* NULL
    [id |-> 10, nationality_id |-> IdA, back_link |-> PyStr(<<32, 32>>)],          \* blanks
    [id |-> 11, nationality_id |-> EmbeddedId, back_link |-> NaN]
}

ExcelFiles ==
    {[status |-> "ok", rows |-> r] : r \in SeqsUpTo(RowSamples, MaxRows)}
    \cup {[status |-> s, rows |-> <<>>] : s \in {"missing", "unreadable", "bad_columns"}}

\* df_full.head(10)
head(rows) == SubSeq(rows, 1, IF Len(rows) < 10 THEN Len(rows) ELSE 10)

(***************************************************************************)
(* download_image                                                          *)
(***************************************************************************)
\* str.lower() on ASCII letters
lower(s) == [i \in 1..Len(s) |-> IF s[i] \in 65..90 THEN s[i] + 32 ELSE s[i]]

\* not isinstance(url, str) or not url.strip() or url.lower() == 'null'
InvalidUrl(url) ==
    \/ url.tag # "str"
    \/ strip(url.val) = <<>>
    \/ lower(url.val) = <<110, 117, 108, 108>>

MsgInvalidUrl ==   \* Invalid or empty URL
    <<73, 110, 118, 97, 108, 105, 100, 32, 111, 114, 32, 101, 109, 112, 116, 121, 32, 85, 82, 76>>
MsgNotImage ==     \* URL is not an image (Content-Type: text/html)
    <<85, 82, 76, 32, 105, 115, 32, 110, 111, 116, 32, 97, 110, 32, 105, 109, 97, 103, 101,
      32, 40, 67, 111, 110, 116, 101, 110, 116, 45, 84, 121, 112, 101, 58, 32, 116, 101,
      120, 116, 47, 104, 116, 109, 108, 41>>
MsgDownloadError ==   \* Download error: 404
    <<68, 111, 119, 110, 108, 111, 97, 100, 32, 101, 114, 114, 111, 114, 58, 32, 52, 48, 52>>
MsgSaveError ==    \* File save error: 28
    <<70, 105, 108, 101, 32, 115, 97, 118, 101, 32, 101, 114, 114, 111, 114, 58, 32, 50, 56>>

\* what the server and the disk do to a request: the message download_image returns
FailureMessages == {MsgDownloadError, MsgNotImage, MsgSaveError}

\* f"Download Failed: {message}"
DownloadFailed(message) ==
    PyStr(<<68, 111, 119, 110, 108, 111, 97, 100, 32, 70, 97, 105, 108, 101, 100, 58, 32>>
          \o message)

ExtractionFailed ==   \* "Extraction Failed"
    PyStr(<<69, 120, 116, 114, 97, 99, 116, 105, 111, 110, 32, 70, 97, 105, 108, 101, 100>>)

(***************************************************************************)
(* detect_rotation_and_correct_image: the angle test                       *)
(***************************************************************************)
Abs(x) == IF x < 0 THEN -x ELSE x

\* The first two vertices of the first text region, as <<x0, y0, x1, y1>>.
\* Tilts of 0, 45, -45, about 42, about 48, about -48, 90 and 180 degrees.
VertexSamples == {
    <<0, 0, 10, 0>>, <<5, 5, 15, 15>>, <<0, 10, 10, 0>>, <<0, 0, 11, 10>>,
    <<0, 0, 10, 11>>, <<0, 11, 10, 0>>, <<3, 0, 3, 10>>, <<10, 0, 0, 0>>
}

\* abs(np.arctan2(dy, dx) * 180 / np.pi) > 45 (process.py): the threshold is the
\* exact 45 degrees, tan(45 deg) = 1; the float result is 45.0 for |dy| = dx > 0
AngleAbove45Exact(dx, dy) ==
    \/ dx <= 0 /\ ~(dx = 0 /\ dy = 0)
    \/ dx > 0 /\ Abs(dy) > dx

\* abs((180 / 3.14159) * math.atan2(dy, dx)) > 45.
\* That is |atan2(dy, dx)| > 45 * 3.14159 / 180 = 0.78539750 rad, just below
\* pi/4 = 0.78539816: for dx > 0 it is |dy| / dx > tan(0.78539750) = 0.9999986732...,
\* which for |dx|, |dy| <= 2000 is decided alike by any bound in (0.9995, 1);
\* for dx <= 0 the angle is at least 90 degrees, except atan2(0, 0) = 0.
AngleAbove45(dx, dy) ==
    \/ dx <= 0 /\ ~(dx = 0 /\ dy = 0)
    \/ dx > 0 /\ Abs(dy) * 1000000 > 999998 * dx

\* angle > 0: atan2 is positive for dy > 0, and pi for dy = 0, dx < 0
AnglePositive(dx, dy) == dy > 0 \/ (dy = 0 /\ dx < 0)

\* img.rotate(270 if angle > 0 else 90, expand=True)
RotationFor(dx, dy) == IF AnglePositive(dx, dy) THEN 270 ELSE 90

\* the bytes of a file: "" (no bytes), the downloaded image, or a rotated copy
RotatedImage(deg) == IF deg = 270 THEN "image rotated 270" ELSE "image rotated 90"

\* a variant without the empty-content test (as process.py has it)
SkipProbeNever(content) == FALSE

\* if not content: return image_path
SkipProbe(content) == content = ""

(***************************************************************************)
(* Texts the OCR returns for an image                                      *)
(***************************************************************************)
OcrTexts == {
    <<73, 68, 32>> \o IdA,                                   \* "ID 29901011234567"
    W(<<2,9,9,0,1,0,1>>) \o <<10>> \o Ar(<<1,2,3,4,5,6,7>>),    \* the same id in two groups
    <<97>> \o EmbeddedId \o <<32, 97>>,                      \* an id glued to a letter
    <<>>                                                     \* an empty description
}

(***************************************************************************)
(* process_from_excel_links (app.py), one step per call it makes           *)
(***************************************************************************)
Init ==
    /\ excel \in ExcelFiles
    /\ pc = "start" /\ index = 0 /\ results = <<>> /\ rendered = "no"
    /\ fs = <<>> /\ loc = NoLocals /\ calls = <<>>
    /\ files_to_process = <<>>
    /\ TextIdle

df == head(excel.rows)

\* lines 56-79: the workbook is read and the Vision client is set up
Start ==
    /\ pc = "start"
    /\ \E clientOk \in BOOLEAN :
         IF excel.status = "ok" /\ clientOk
         THEN pc' = "loop" /\ rendered' = rendered
         ELSE pc' = "done" /\ rendered' = "None"
    /\ UNCHANGED textVars /\ UNCHANGED <<files_to_process, excel, index, results, fs, loc, calls>>

\* lines 81-88: the next row of df.iterrows()
NextRow ==
    /\ pc = "loop" /\ index < Len(df)
    /\ loc' = [NoLocals EXCEPT
                 !.excel_row_id = IntToStr(df[index + 1].id),
                 !.excel_nationality_id = df[index + 1].nationality_id,
                 !.image_url = df[index + 1].back_link,
                 !.local_filename = LocalFilename(index),
                 !.local_filepath = LocalFilepath(index)]
    /\ calls' = <<>>
    /\ pc' = "download"
    /\ UNCHANGED textVars /\ UNCHANGED <<files_to_process, excel, index, results, rendered, fs>>

\* lines 113-114: the loop is over and the results are rendered
Finish ==
    /\ pc = "loop" /\ index >= Len(df)
    /\ pc' = "done" /\ rendered' = "results"
    /\ UNCHANGED textVars /\ UNCHANGED <<files_to_process, excel, index, results, fs, loc, calls>>

\* what the caller does with download_image's answer (lines 90-95, 102-103)
AfterDownload(l, success, message) ==
    IF success
    THEN [l EXCEPT !.success = TRUE, !.message = message]
    ELSE [l EXCEPT !.success = FALSE, !.message = message,
                   !.extracted_id = DownloadFailed(message)]

\* a variant that sends a failed download on to the OCR all the same
PcAfterDownloadAlwaysOcr(success) == "detect_rotation"

PcAfterDownload(success) == IF success THEN "detect_rotation" ELSE "append"

\* download_image (lines 26-47) and the branch on its answer
DownloadImage ==
    /\ pc = "download"
    /\ calls' = Append(calls, "download_image")
    /\ \/ /\ InvalidUrl(loc.image_url)
          /\ loc' = AfterDownload(loc, FALSE, MsgInvalidUrl)
          /\ pc' = PcAfterDownload(FALSE)
          /\ fs' = fs
       \/ /\ ~InvalidUrl(loc.image_url)
          /\ \E message \in FailureMessages :
               loc' = AfterDownload(loc, FALSE, message)
          /\ pc' = PcAfterDownload(FALSE)
          /\ fs' = fs
       \/ /\ ~InvalidUrl(loc.image_url)
          /\ \E content \in {"", "image"} :
               fs' = WriteFile(fs, loc.local_filepath, content)
          /\ loc' = AfterDownload(loc, TRUE, <<83, 117, 99, 99, 101, 115, 115>>)
          /\ pc' = PcAfterDownload(TRUE)
    /\ UNCHANGED textVars /\ UNCHANGED <<files_to_process, excel, index, results, rendered>>

\* detect_rotation_and_correct_image returns path, having read vertices v
\* (<<>> when it read none); failed: PIL raised while opening, rotating or saving
RotationReturns(path, v, failed) ==
    /\ loc' = [loc EXCEPT !.corrected_path = path, !.vertices = v, !.pil_failed = failed]
    /\ pc' = "read_image"

\* detect_rotation_and_correct_image (process_logic.py lines 22-51)
DetectRotation ==
    /\ pc = "detect_rotation"
    /\ \/ \* io.open or read raises: the except branch returns image_path
          /\ RotationReturns(loc.local_filepath, <<>>, FALSE)
          /\ UNCHANGED <<fs, calls>>
       \/ \* the content is empty: image_path is returned before any call
          /\ Exists(fs, loc.local_filepath) /\ SkipProbe(fs[loc.local_filepath])
          /\ RotationReturns(loc.local_filepath, <<>>, FALSE)
          /\ UNCHANGED <<fs, calls>>
       \/ \* text_detection raises, or finds no text region, or one without vertices
          /\ Exists(fs, loc.local_filepath) /\ ~SkipProbe(fs[loc.local_filepath])
          /\ calls' = Append(calls, "text_detection")
          /\ RotationReturns(loc.local_filepath, <<>>, FALSE)
          /\ fs' = fs
       \/ \* vertices are read and the angle decides
          /\ Exists(fs, loc.local_filepath) /\ ~SkipProbe(fs[loc.local_filepath])
          /\ calls' = Append(calls, "text_detection")
          /\ \E v \in VertexSamples :
               LET dx == v[3] - v[1]
                   dy == v[4] - v[2]
               IN IF AngleAbove45(dx, dy)
                  THEN \/ \* the rotated copy is saved
                          /\ fs' = WriteFile(fs, CorrectedPath(loc.local_filepath),
                                             RotatedImage(RotationFor(dx, dy)))
                          /\ RotationReturns(CorrectedPath(loc.local_filepath), v, FALSE)
                       \/ \* PIL raises: the except branch returns image_path
                          /\ fs' = fs
                          /\ RotationReturns(loc.local_filepath, v, TRUE)
                  ELSE /\ fs' = fs
                       /\ RotationReturns(loc.local_filepath, v, FALSE)
    /\ UNCHANGED textVars /\ UNCHANGED <<files_to_process, excel, index, results, rendered>>

\* detect_text_from_image returns v (the locals of the two functions are gone)
TextReturns(v) ==
    /\ loc' = [loc EXCEPT !.original_text = v, !.vertices = <<>>, !.pil_failed = FALSE,
                           !.content = ""]
    /\ pc' = "extract"

\* a variant that reads the downloaded file whatever the rotation check returned
ReadOriginalContent(files, l) == files[l.local_filepath]

\* lines 57-58: content = image_file.read() of io.open(corrected_path, 'rb')
ReadContent(files, l) == files[l.corrected_path]

\* detect_text_from_image, lines 56-66: the (corrected) file is read
ReadImage ==
    /\ pc = "read_image"
    /\ \/ \* io.open or read raises: return None
          TextReturns(PyNone)
       \/ \* the content is empty: return None
          /\ Exists(fs, loc.corrected_path) /\ ReadContent(fs, loc) = ""
          /\ TextReturns(PyNone)
       \/ /\ Exists(fs, loc.corrected_path) /\ ReadContent(fs, loc) # ""
          /\ loc' = [loc EXCEPT !.vertices = <<>>, !.pil_failed = FALSE,
                                 !.content = ReadContent(fs, loc)]
          /\ pc' = "ocr"
    /\ UNCHANGED textVars /\ UNCHANGED <<files_to_process, excel, index, results, rendered, fs, calls>>

\* lines 74-75: if corrected_path != image_path and os.path.exists(...): os.remove
Cleanup(files, corrected_path, image_path) ==
    IF corrected_path # image_path /\ Exists(files, corrected_path)
    THEN RemoveFile(files, corrected_path)
    ELSE files

\* detect_text_from_image, lines 68-76: the full OCR and the cleanup
DocumentTextDetection ==
    /\ pc = "ocr"
    /\ calls' = Append(calls, "document_text_detection")
    /\ \/ \* response.error.message: return None, before the cleanup
          /\ TextReturns(PyNone)
          /\ fs' = fs
       \/ \* no text annotations: text is None
          /\ TextReturns(PyNone)
          /\ fs' = Cleanup(fs, loc.corrected_path, loc.local_filepath)
       \/ \E t \in OcrTexts :
          /\ TextReturns(PyStr(t))
          /\ fs' = Cleanup(fs, loc.corrected_path, loc.local_filepath)
    /\ UNCHANGED textVars /\ UNCHANGED <<files_to_process, excel, index, results, rendered>>

\* line 100: extracted_id == excel_nationality_id
IsMatch(extracted_id, expected) == extracted_id = PyStr(expected)

\* lines 98-101: the id is extracted and compared
ExtractAndCompare ==
    /\ pc = "extract"
    /\ LET extracted_id == IF Truthy(loc.original_text)
                           THEN extract_national_id(loc.original_text.val)
                           ELSE ExtractionFailed
       IN /\ loc' = [loc EXCEPT !.extracted_id = extracted_id,
                                !.is_match = IsMatch(extracted_id, loc.excel_nationality_id)]
          /\ calls' = IF Truthy(loc.original_text)
                      THEN Append(calls, "extract_national_id")
                      ELSE calls
    /\ pc' = "append"
    /\ UNCHANGED textVars /\ UNCHANGED <<files_to_process, excel, index, results, rendered, fs>>

\* the entry of lines 105-111
ResultEntry(l) == [
    excel_row_id |-> l.excel_row_id,
    excel_nationality_id |-> l.excel_nationality_id,
    extracted_id |-> l.extracted_id,
    is_match |-> l.is_match,
    image_path |-> IF l.success THEN PyStr(l.local_filename) ELSE PyNone
]

\* a variant that reports only the rows whose image was downloaded
AppendIfDownloaded(rs, l) == IF l.success THEN Append(rs, ResultEntry(l)) ELSE rs

\* results.append({...})
AppendEntry(rs, l) == Append(rs, ResultEntry(l))

\* lines 105-111, and the loop goes on
AppendResult ==
    /\ pc = "append"
    /\ results' = AppendEntry(results, loc)
    /\ index' = index + 1
    /\ pc' = "loop"
    /\ UNCHANGED textVars /\ UNCHANGED <<files_to_process, excel, rendered, fs, loc, calls>>

Next ==
    \/ Start \/ NextRow \/ Finish \/ DownloadImage \/ DetectRotation
    \/ ReadImage \/ DocumentTextDetection \/ ExtractAndCompare \/ AppendResult

Spec == Init /\ [][Next]_vars

(***************************************************************************)
(* Properties of the batch route (Spec)                                    *)
(***************************************************************************)
Called(name) == \E i \in 1..Len(calls) : calls[i] = name

\* C2: whenever detect_rotation_and_correct_image made a corrected file (the path
\* it returned differs from the original), that file is gone when
\* detect_text_from_image returns, on every exit path.
C2_CorrectedFileRemoved ==
    (pc = "extract" /\ loc.corrected_path # loc.local_filepath) =>
        ~Exists(fs, loc.corrected_path)

DownloadFailedPrefix == DownloadFailed(<<>>).val

IsFailureMarker(v) ==
    /\ v.tag = "str" /\ Len(v.val) >= Len(DownloadFailedPrefix)
    /\ SubSeq(v.val, 1, Len(DownloadFailedPrefix)) = DownloadFailedPrefix

\* C4: a record whose image could not be acquired is emitted with a failure
\* marker as extracted_id and is_match = FALSE, without any OCR call, and the
\* loop goes on to the end of the batch; is_match is TRUE only for a record whose
\* image was acquired and whose extracted value equals the expected id.
C4_FailedDownloadIsReported ==
    /\ (pc = "append" /\ ~loc.success) =>
          /\ loc.extracted_id = DownloadFailed(loc.message) /\ ~loc.is_match
          /\ ~Called("text_detection") /\ ~Called("document_text_detection")
          /\ ~Called("extract_national_id")
    /\ \A i \in 1..Len(results) :
          /\ results[i].image_path = PyNone =>
                IsFailureMarker(results[i].extracted_id) /\ ~results[i].is_match
          /\ results[i].is_match =>
                /\ results[i].image_path # PyNone
                /\ results[i].extracted_id = PyStr(results[i].excel_nationality_id)
    /\ pc = "done" /\ excel.status = "ok" /\ rendered = "results" => Len(results) = Len(df)

\* C4 witness: a non-image answer was reported for the first record and the
\* second record went on to a match.
C4_Witness ==
    /\ Len(results) = 2
    /\ results[1].extracted_id = DownloadFailed(MsgNotImage) /\ ~results[1].is_match
    /\ results[2].is_match

\* C6: with the vector from the first to the second vertex at exactly 45 or -45
\* degrees (dx > 0, |dy| = dx) the image is not rotated and the original path is
\* returned; with the angle strictly beyond 45 degrees a rotated copy is made.
C6_Exactly45NotRotated ==
    (pc = "read_image" /\ loc.vertices # <<>>) =>
        LET dx == loc.vertices[3] - loc.vertices[1]
            dy == loc.vertices[4] - loc.vertices[2]
        IN /\ (dx > 0 /\ Abs(dy) = dx) =>
                 /\ loc.corrected_path = loc.local_filepath
                 /\ ~Exists(fs, CorrectedPath(loc.local_filepath))
           /\ (AngleAbove45Exact(dx, dy) /\ ~loc.pil_failed) =>
                 /\ loc.corrected_path = CorrectedPath(loc.local_filepath)
                 /\ Exists(fs, loc.corrected_path)

\* C7: with empty image content detect_rotation_and_correct_image makes no
\* text_detection call, makes no corrected file and returns the original path.
C7_EmptyContentNoProbe ==
    (pc = "read_image" /\ Exists(fs, loc.local_filepath) /\ fs[loc.local_filepath] = "") =>
        /\ ~Called("text_detection")
        /\ ~Exists(fs, CorrectedPath(loc.local_filepath))
        /\ loc.corrected_path = loc.local_filepath

\* C7 witness: an empty image was downloaded and the rotation check has returned
C7_Witness ==
    /\ pc = "read_image" /\ loc.success
    /\ Exists(fs, loc.local_filepath) /\ fs[loc.local_filepath] = ""
    /\ calls = <<"download_image">>


\* the place of a call in the order probe, full OCR, extraction
CallRank(name) ==
    CASE name = "download_image" -> 1
      [] name = "text_detection" -> 2
      [] name = "document_text_detection" -> 3
      [] name = "extract_national_id" -> 4

\* C13: for a record the calls come in the order text_detection (at most once),
\* document_text_detection (at most once, on the content of the path the
\* orientation correction returned), extraction, comparison, append; and a
\* record is taken up only when the entries of all records before it are in
\* the result list.
C13_StepsInOrder ==
    /\ \A i \in 1..Len(calls) : \A j \in (i + 1)..Len(calls) :
          CallRank(calls[i]) < CallRank(calls[j])
    /\ pc = "ocr" =>
          /\ ~Called("document_text_detection")
          /\ Exists(fs, loc.corrected_path) /\ loc.content = fs[loc.corrected_path]
    /\ Called("document_text_detection") => pc \in {"extract", "append", "loop", "done"}
    /\ Called("extract_national_id") => pc \in {"append", "loop", "done"}
    /\ pc \in {"detect_rotation", "read_image", "ocr", "extract"} =>
          loc.success /\ loc.extracted_id = PyNone /\ ~loc.is_match
    /\ (pc = "append" /\ loc.success) =>
          loc.is_match = IsMatch(loc.extracted_id, loc.excel_nationality_id)
    /\ pc \in {"download", "detect_rotation", "read_image", "ocr", "extract", "append"} =>
          Len(results) = index
    /\ pc = "download" => calls = <<>>

\* C13 witness: the second record of a batch, its image rotated, has gone
\* through probe, full OCR of the rotated copy and extraction, and is about to
\* be appended after the first record's entry.
C13_Witness ==
    /\ pc = "append" /\ index = 1 /\ Len(results) = 1
    /\ calls = <<"download_image", "text_detection", "document_text_detection",
                 "extract_national_id">>
    /\ loc.corrected_path # loc.local_filepath

(***************************************************************************)
(* Further properties of extract_national_id (SpecId)                      *)
(***************************************************************************)
\* positions of c where a run of exactly 14 digits starts with 2 or 3: the
\* characters before and after the run are no digits, or the run touches an end
Exact14Starts(c) == {i \in 1..Len(c) : Id14At(c, i) /\ ~D(c, i - 1) /\ ~D(c, i + 14)}

\* C12: Strategy A matches every run of exactly 14 digits of the date-stripped
\* text that starts with 2 or 3 and has non-digits (or the end of the text) on
\* both sides, a letter or an underscore included, and for a text with such a
\* run extract_national_id returns the first of them.
C12_MatchesEveryNonDigitBoundedRun ==
    Returned =>
        LET cleaned == strip_dates(normalize_digits(text))
            starts == Exact14Starts(cleaned)
        IN /\ \A i \in starts : StrategyAAt(cleaned, i)
           /\ starts # {} => ret = PyStr(SubSeq(cleaned, Min(starts), Min(starts) + 13))

\* the positions of s that re.sub(date pattern, '', s) keeps, from position i on
RECURSIVE KeptFrom(_, _)
KeptFrom(s, i) ==
    IF i > Len(s) THEN <<>>
    ELSE IF DateMatchEnd(s, i) # 0 THEN KeptFrom(s, DateMatchEnd(s, i))
    ELSE <<i>> \o KeptFrom(s, i + 1)

\* run is one of the runs
IsRunOf(run, runs) == \E j \in 1..Len(runs) : runs[j] = run

\* C14: date-stripping never fuses digits.  Two digits next to each other in
\* the date-stripped text were next to each other in the normalized text, a
\* digit run of the date-stripped text starts and ends where a digit run of the
\* normalized text starts and ends, so every maximal digit run of the
\* date-stripped text is a maximal digit run of the normalized text, and an id
\* returned by Strategy A is a complete digit run of the normalized text.
C14_DateStrippingNeverFusesDigits ==
    Returned =>
        LET processed == normalize_digits(text)
            cleaned == strip_dates(processed)
            kept == KeptFrom(processed, 1)
            runs == findall_digits(processed)
            cleanedRuns == findall_digits(cleaned)
        IN /\ Len(kept) = Len(cleaned)
           /\ \A k \in 1..Len(cleaned) :
                 /\ cleaned[k] = processed[kept[k]]
                 /\ (D(cleaned, k) /\ D(cleaned, k + 1)) => kept[k + 1] = kept[k] + 1
                 /\ (D(cleaned, k) /\ ~D(cleaned, k - 1)) => ~D(processed, kept[k] - 1)
                 /\ (D(cleaned, k) /\ ~D(cleaned, k + 1)) => ~D(processed, kept[k] + 1)
           /\ \A i \in 1..Len(cleanedRuns) : IsRunOf(cleanedRuns[i], runs)
           /\ StrategyA(cleaned) # PyNone =>
                 ret = StrategyA(cleaned) /\ IsRunOf(ret.val, runs)

\* C14 witness: a date that stood between two digit runs was removed, and
\* Strategy A returned an id of the date-stripped text.
C14_Witness ==
    Returned /\
        LET processed == normalize_digits(text)
            cleaned == strip_dates(processed)
            kept == KeptFrom(processed, 1)
        IN /\ StrategyA(cleaned) # PyNone /\ ret = StrategyA(cleaned)
           /\ \E k \in 1..(Len(cleaned) - 1) :
                 /\ kept[k + 1] > kept[k] + 1
                 /\ \E a \in 1..k : D(cleaned, a)
                 /\ \E b \in (k + 1)..Len(cleaned) : D(cleaned, b)

(***************************************************************************)
(* process.py: its own copies of the two image functions and its main loop *)
(* over the files of IMAGE_FOLDER                                          *)
(***************************************************************************)
DotJpeg == <<46, 106, 112, 101, 103>>                            \* .jpeg

\* image_path.replace('.jpg', '_corrected.jpg'): process.py rewrites '.jpg' only
CorrectedPathJpg(image_path) == Replace(image_path, DotJpg, Corrected \o DotJpg)

\* IMAGE_FOLDER = r"D:\National Id Scan\national_id_images"
IMAGE_FOLDER ==
    <<68, 58, 92, 78, 97, 116, 105, 111, 110, 97, 108, 32, 73, 100, 32, 83, 99, 97, 110, 92,
      110, 97, 116, 105, 111, 110, 97, 108, 95, 105, 100, 95, 105, 109, 97, 103, 101, 115>>

\* os.path.join(IMAGE_FOLDER, filename), with the separator of that drive path
ImagePath(filename) == IMAGE_FOLDER \o <<92>> \o filename

\* str.endswith(suffix)
EndsWith(s, suffix) ==
    Len(s) >= Len(suffix) /\ SubSeq(s, Len(s) - Len(suffix) + 1, Len(s)) = suffix

\* filename.lower().endswith(('.png', '.jpg', '.jpeg'))
IsImageName(filename) ==
    \E suffix \in {DotPng, DotJpg, DotJpeg} : EndsWith(lower(filename), suffix)

\* a < b for two str: by code point, a proper prefix first
RECURSIVE StrLess(_, _)
StrLess(a, b) ==
    IF b = <<>> THEN FALSE
    ELSE IF a = <<>> THEN TRUE
    ELSE IF a[1] # b[1] THEN a[1] < b[1]
    ELSE StrLess(Tail(a), Tail(b))

\* sorted(names)
RECURSIVE sorted(_)
sorted(names) ==
    IF names = {} THEN <<>>
    ELSE LET m == CHOOSE x \in names : \A y \in names \ {x} : StrLess(x, y)
         IN <<m>> \o sorted(names \ {m})

\* os.listdir(IMAGE_FOLDER): the names of the files under the folder
listdir(files) ==
    {SubSeq(p, Len(IMAGE_FOLDER) + 2, Len(p)) :
        p \in {q \in DOMAIN files : Len(q) > Len(IMAGE_FOLDER) + 1
                                    /\ SubSeq(q, 1, Len(IMAGE_FOLDER)) = IMAGE_FOLDER}}

MaxFiles == 2

\* names a folder of scans holds: a.jpg, b.jpeg, c.JPG, d.png, and e and f.txt,
\* which the loop passes over
FolderNames == {
    <<97>> \o DotJpg, <<98>> \o DotJpeg, <<99, 46, 74, 80, 71>>, <<100>> \o DotPng,
    <<101>>, <<102, 46, 116, 120, 116>>
}

Folders == {names \in SUBSET FolderNames : Cardinality(names) <= MaxFiles}

\* the locals of one turn of the loop and of the two functions it calls;
\* saved: img.save(corrected_path) was carried out for this file
MainNoLocals == [
    filename |-> <<>>, image_path |-> <<>>, corrected_path |-> <<>>,
    original_text |-> PyNone, national_id_found |-> PyNone,
    vertices |-> <<>>, saved |-> FALSE
]

InitMain ==
    /\ TextIdle
    /\ excel = [status |-> "ok", rows |-> <<>>] /\ results = <<>> /\ rendered = "no"
    /\ pc = "main" /\ index = 0 /\ calls = <<>> /\ files_to_process = <<>>
    /\ loc = MainNoLocals
    /\ \E names \in Folders : fs = [p \in {ImagePath(n) : n \in names} |-> "image"]

\* process.py lines 137-141, 164-167: the client is set up and the folder listed
MainStart ==
    /\ pc = "main"
    /\ \E clientOk \in BOOLEAN, isdir \in BOOLEAN :
         IF clientOk /\ isdir
         THEN pc' = "for_filename" /\ files_to_process' = sorted(listdir(fs))
         ELSE pc' = "done" /\ files_to_process' = files_to_process
    /\ UNCHANGED textVars /\ UNCHANGED <<excel, index, results, rendered, fs, loc, calls>>

\* lines 142-144: the next filename; one that is no image name is passed over
MainNextFile ==
    /\ pc = "for_filename" /\ index < Len(files_to_process)
    /\ LET filename == files_to_process[index + 1]
       IN IF IsImageName(filename)
          THEN /\ loc' = [MainNoLocals EXCEPT !.filename = filename,
                                               !.image_path = ImagePath(filename)]
               /\ calls' = <<>>
               /\ pc' = "detect_rotation" /\ index' = index
          ELSE /\ pc' = "for_filename" /\ index' = index + 1
               /\ UNCHANGED <<loc, calls>>
    /\ UNCHANGED textVars /\ UNCHANGED <<files_to_process, excel, results, rendered, fs>>

\* the loop is over
MainFinish ==
    /\ pc = "for_filename" /\ index >= Len(files_to_process)
    /\ pc' = "done"
    /\ UNCHANGED textVars
    /\ UNCHANGED <<files_to_process, excel, index, results, rendered, fs, loc, calls>>

\* process.py's detect_rotation_and_correct_image returns path
MainRotationReturns(path, v, saved) ==
    /\ loc' = [loc EXCEPT !.corrected_path = path, !.vertices = v, !.saved = saved]
    /\ pc' = "read_image"

\* detect_rotation_and_correct_image (process.py lines 21-45)
MainDetectRotation ==
    /\ pc = "detect_rotation"
    /\ \/ \* io.open or read raises: the except branch returns image_path
          /\ MainRotationReturns(loc.image_path, <<>>, FALSE)
          /\ UNCHANGED <<fs, calls>>
       \/ \* text_detection raises, or finds no text region, or one without vertices
          /\ Exists(fs, loc.image_path)
          /\ calls' = Append(calls, "text_detection")
          /\ MainRotationReturns(loc.image_path, <<>>, FALSE)
          /\ fs' = fs
       \/ \* vertices are read and the angle decides
          /\ Exists(fs, loc.image_path)
          /\ calls' = Append(calls, "text_detection")
          /\ \E v \in VertexSamples :
               LET dx == v[3] - v[1]
                   dy == v[4] - v[2]
               IN IF AngleAbove45Exact(dx, dy)
                  THEN \/ \* img.save(corrected_path) writes the rotated copy
                          /\ fs' = WriteFile(fs, CorrectedPathJpg(loc.image_path),
                                             RotatedImage(RotationFor(dx, dy)))
                          /\ MainRotationReturns(CorrectedPathJpg(loc.image_path), v, TRUE)
                       \/ \* PIL raises: the except branch returns image_path
                          /\ fs' = fs
                          /\ MainRotationReturns(loc.image_path, v, FALSE)
                  ELSE /\ fs' = fs
                       /\ MainRotationReturns(loc.image_path, v, FALSE)
    /\ UNCHANGED textVars /\ UNCHANGED <<files_to_process, excel, index, results, rendered>>

\* process.py's detect_text_from_image returns v
MainTextReturns(v) ==
    /\ loc' = [loc EXCEPT !.original_text = v]
    /\ pc' = "report"

\* detect_text_from_image (process.py lines 50-55): the file is read
MainReadImage ==
    /\ pc = "read_image"
    /\ \/ \* io.open or read raises: return None
          MainTextReturns(PyNone)
       \/ /\ Exists(fs, loc.corrected_path)
          /\ pc' = "ocr" /\ loc' = loc
    /\ UNCHANGED textVars
    /\ UNCHANGED <<files_to_process, excel, index, results, rendered, fs, calls>>

\* detect_text_from_image (process.py lines 56-65): the full OCR and the cleanup
MainDocumentTextDetection ==
    /\ pc = "ocr"
    /\ calls' = Append(calls, "document_text_detection")
    /\ \/ \* response.error.message: return None, before the cleanup
          /\ MainTextReturns(PyNone)
          /\ fs' = fs
       \/ \* no text annotations: text is None
          /\ MainTextReturns(PyNone)
          /\ fs' = Cleanup(fs, loc.corrected_path, loc.image_path)
       \/ \E t \in OcrTexts :
          /\ MainTextReturns(PyStr(t))
          /\ fs' = Cleanup(fs, loc.corrected_path, loc.image_path)
    /\ UNCHANGED textVars /\ UNCHANGED <<files_to_process, excel, index, results, rendered>>

\* lines 151-163: the id is looked for in the text, and the loop goes on
MainReport ==
    /\ pc = "report"
    /\ IF Truthy(loc.original_text)
       THEN /\ loc' = [loc EXCEPT !.national_id_found =
                                      extract_national_id(loc.original_text.val)]
            /\ calls' = Append(calls, "extract_national_id")
       ELSE UNCHANGED <<loc, calls>>
    /\ index' = index + 1
    /\ pc' = "for_filename"
    /\ UNCHANGED textVars /\ UNCHANGED <<files_to_process, excel, results, rendered, fs>>

NextMain ==
    \/ MainStart \/ MainNextFile \/ MainFinish \/ MainDetectRotation
    \/ MainReadImage \/ MainDocumentTextDetection \/ MainReport

SpecMain == InitMain /\ [][NextMain]_vars

(***************************************************************************)
(* Properties of process.py's main loop (SpecMain)                         *)
(***************************************************************************)
\* C11: whenever detect_rotation_and_correct_image has rotated the image, the
\* rotated copy went to a path different from the original image path, whatever
\* the file name, and the original file is present with its content unchanged,
\* from the return of the rotation to the return of detect_text_from_image.
C11_OriginalNeverOverwritten ==
    (pc \in {"read_image", "ocr", "report"} /\ loc.saved) =>
        /\ loc.corrected_path # loc.image_path
        /\ Exists(fs, loc.image_path)
        /\ fs[loc.image_path] = "image"

=============================================================================
